---- MODULE Spec2Model ----
(***************************************************************************)
(* State-machine model of the rpcserver dispatch server (server.go) and    *)
(* of the sample Arith service (jsonrpc-sample/main.go).                   *)
(*                                                                         *)
(* Strings that the code inspects (the Content-Type header and the         *)
(* content types handed to RegisterCodec) are sequences of tokens: a media *)
(* type in some letter case, the separator ";" or a parameter.  ToLower    *)
(* and Index work on these sequences as strings.ToLower and strings.Index  *)
(* work on the characters.  An error value is a sequence of strings (its   *)
(* message); the nil error is the empty sequence.  A reply or args value   *)
(* is the tuple of the integer fields of the Go value.                     *)
(***************************************************************************)
EXTENDS Integers, Sequences, FiniteSets, TLC

VARIABLES
    server,     \* result of NewServer: "ok" (a *Server) or "nil" (an error was returned)
    service,    \* Server.service: the RpcService built from the receiver
    codecs,     \* Server.codecs: map from content type to Codec
    serving,    \* TRUE once router.Run() has handed a request to ServeHTTP
    pc,         \* per handler: the position of ServeHTTP
    r,          \* per handler: the *http.Request
    loc,        \* per handler: the local variables of ServeHTTP
    calls,      \* per handler: the collaborator calls made so far, in order
    w           \* per handler: the http.ResponseWriter

vars == <<server, service, codecs, serving, pc, r, loc, calls, w>>

-----------------------------------------------------------------------------
(* Bounds of the model *)

\* RegisterCodec is not called once the map holds MaxCodecs keys, except to
\* overwrite one of them.
MaxCodecs == 2

\* Width of the Go int in the model (two's complement).
IntBits == 8

-----------------------------------------------------------------------------
(* Values *)

Nil == "nil"
NoError == <<>>

\* The handlers (goroutines) the host HTTP runtime runs ServeHTTP on.
Slots == {"h1", "h2"}

Codecs == {"jsonCodec", "xmlCodec"}

Verbs == {"POST", "GET"}

\* Tokens of content-type strings, with their lower-case forms.
ToLowerToken(t) ==
    CASE t = "Application/JSON" -> "application/json"
      [] t = "Charset=UTF-8" -> "charset=utf-8"
      [] OTHER -> t

\* Content types handed to RegisterCodec.
RegTypes ==
    { <<>>,
      <<"application/json">>,
      <<"Application/JSON">>,
      <<"text/xml">>,
      <<"application/json", ";", "charset=utf-8">> }

\* Content-Type headers of requests; <<>> is the missing or empty header.
HeaderTypes ==
    { <<>>,
      <<"application/json">>,
      <<"Application/JSON">>,
      <<"application/json", ";", "charset=utf-8">>,
      <<"Application/JSON", ";", "Charset=UTF-8">>,
      <<";", "charset=utf-8">>,
      <<"text/xml">> }

\* URL paths, as sequences of segments.
Paths ==
    { <<"jsonrpc", "v2", "Multiply">>,
      <<"jsonrpc", "v2", "Divide">>,
      <<"jsonrpc", "v2", "multiply">>,
      <<"Divide", "jsonrpc">> }

\* Method names a codec can report for a request body.
BodyMethods == {"Multiply", "Divide", "Sqrt"}

Pow2(n) == 2 ^ n
MinInt == 0 - Pow2(IntBits - 1)
MaxInt == Pow2(IntBits - 1) - 1

\* Args values {A, B} a body can carry.
ArgPairs == { <<6, 7>>, <<7, 2>>, <<1, 0>>, <<0 - 7, 2>>, <<MinInt, 0 - 1>> }

\* What the codec finds in a request body: a malformed envelope, an envelope
\* without a usable method name, or a method name with params that decode
\* into Args or fail to.
Bodies ==
    { [envErr |-> TRUE, methodErr |-> FALSE, method |-> "", readErr |-> FALSE, params |-> <<0, 0>>],
      [envErr |-> FALSE, methodErr |-> TRUE, method |-> "", readErr |-> FALSE, params |-> <<0, 0>>] }
    \cup { [envErr |-> FALSE, methodErr |-> FALSE, method |-> m, readErr |-> TRUE, params |-> <<0, 0>>] :
             m \in BodyMethods }
    \cup { [envErr |-> FALSE, methodErr |-> FALSE, method |-> m, readErr |-> FALSE, params |-> p] :
             m \in BodyMethods, p \in ArgPairs }

Requests == [verb : Verbs, contentType : HeaderTypes, path : Paths, body : Bodies]

NoRequest == [verb |-> "", contentType |-> <<>>, path |-> <<>>,
              body |-> [envErr |-> FALSE, methodErr |-> FALSE, method |-> "",
                        readErr |-> FALSE, params |-> <<0, 0>>]]

-----------------------------------------------------------------------------
(* strings *)

\* strings.ToLower
ToLower(s) == [k \in 1..Len(s) |-> ToLowerToken(s[k])]

\* strings.Index(s, ";"): the 0-based position of the first ";", or -1
Index(s) ==
    IF \E k \in 1..Len(s) : s[k] = ";"
    THEN (CHOOSE k \in 1..Len(s) : s[k] = ";" /\ \A j \in 1..(k - 1) : s[j] # ";") - 1
    ELSE 0 - 1

\* s[:idx]
Prefix(s, idx) == SubSeq(s, 1, idx)

-----------------------------------------------------------------------------
(* Go int arithmetic *)

Wrap(x) == ((x + Pow2(IntBits - 1)) % Pow2(IntBits)) - Pow2(IntBits - 1)

Abs(x) == IF x < 0 THEN 0 - x ELSE x

\* the quotient truncated toward zero, before it is stored in an int
TruncDiv(a, b) ==
    IF (a < 0) = (b < 0) THEN Abs(a) \div Abs(b) ELSE 0 - (Abs(a) \div Abs(b))

GoMul(a, b) == Wrap(a * b)
GoDiv(a, b) == Wrap(TruncDiv(a, b))
GoRem(a, b) == a - b * TruncDiv(a, b)

-----------------------------------------------------------------------------
(* The sample service: jsonrpc-sample/main.go *)

ErrDivideByZero == <<"divide by zero">>

\* Multiply adding its arguments
MultiplyAdds(args, reply) ==
    [reply |-> <<Wrap(args[1] + args[2])>>, err |-> NoError]

\* func (t *Arith) Multiply(r, args, reply): the reply and the returned error
Multiply(args, reply) ==
    [reply |-> <<GoMul(args[1], args[2])>>, err |-> NoError]

\* func (t *Arith) Divide(r, args, quo): the reply and the returned error
Divide(args, quo) ==
    IF args[2] = 0
    THEN [reply |-> quo, err |-> ErrDivideByZero]
    ELSE [reply |-> <<GoDiv(args[1], args[2]), GoRem(args[1], args[2])>>, err |-> NoError]

\* The receivers handed to NewServer: new(Arith), and a value of a type that
\* has no method of the required shape.
ArithReceiver ==
    [type |-> "Arith",
     methods |-> { [name |-> "Multiply", argsType |-> "Args", replyType |-> "int"],
                   [name |-> "Divide", argsType |-> "Args", replyType |-> "Quotient"] }]

EmptyReceiver == [type |-> "Empty", methods |-> {}]

Receivers == {ArithReceiver, EmptyReceiver}

-----------------------------------------------------------------------------
(* The method registry (RpcService) *)

NoSpec == [name |-> "", argsType |-> "", replyType |-> ""]
NoService == [rcvr |-> Nil, methods |-> {}]

ErrNoMethods == <<"rpc: receiver has no exported methods of suitable type">>

\* NewRpcService(receiver): a registry of the receiver's eligible methods,
\* or an error when none is eligible
NewRpcService(receiver) ==
    IF receiver.methods = {}
    THEN [service |-> NoService, err |-> ErrNoMethods]
    ELSE [service |-> [rcvr |-> receiver.type, methods |-> receiver.methods],
          err |-> NoError]

\* RpcService.Get(name): the MethodSpec registered under exactly this name
Get(svc, name) ==
    IF \E m \in svc.methods : m.name = name
    THEN [spec |-> CHOOSE m \in svc.methods : m.name = name, err |-> NoError]
    ELSE [spec |-> NoSpec, err |-> <<"rpc: can't find method ", name>>]

\* LastPart(path): the final segment of the URL path
LastPart(path) == IF Len(path) = 0 THEN "" ELSE path[Len(path)]

\* reflect.New(t): a pointer to the zero value of t
Zero(t) == IF t = "int" THEN <<0>> ELSE <<0, 0>>

\* methodSpec.method.Func.Call(rcvr, r, args, reply)
Call(methodSpec, args, reply) ==
    IF methodSpec.name = "Multiply" THEN Multiply(args, reply) ELSE Divide(args, reply)

-----------------------------------------------------------------------------
(* The Server *)

\* m[k] of a Go map: the zero value (nil) when the key is absent
MapGet(m, k) == IF k \in DOMAIN m THEN m[k] ELSE Nil

EmptyMap == [k \in {} |-> Nil]

\* NewServer returning a Server although NewRpcService failed
NewServerIgnoringError(receiver) ==
    [server |-> "ok", codecs |-> EmptyMap, service |-> NewRpcService(receiver).service,
     err |-> NoError]

\* NewServer(receiver)
NewServer(receiver) ==
    LET res == NewRpcService(receiver)
    IN  IF res.err # NoError
        THEN [server |-> "nil", codecs |-> EmptyMap, service |-> NoService, err |-> res.err]
        ELSE [server |-> "ok", codecs |-> EmptyMap, service |-> res.service, err |-> NoError]

\* CodecKey keeping the content type as it was given
CodecKeyAsGiven(contentType) == contentType

\* The key RegisterCodec stores a codec under
CodecKey(contentType) == ToLower(contentType)

\* HasMethod with the test of the lookup error inverted
HasMethodInverted(method) == Get(service, method).err # NoError

\* s.HasMethod(method)
HasMethod(method) == Get(service, method).err = NoError

-----------------------------------------------------------------------------
(* The http.ResponseWriter *)

NewWriter ==
    [wroteHeader |-> FALSE, status |-> 0, sent |-> EmptyMap, header |-> EmptyMap,
     body |-> <<>>, writes |-> <<>>]

\* w.WriteHeader(status): the status and the headers set so far are committed
WriteHeader(rw, status) ==
    IF rw.wroteHeader THEN rw
    ELSE [rw EXCEPT !.wroteHeader = TRUE, !.status = status, !.sent = rw.header]

\* w.Header().Set(key, value)
HeaderSet(rw, key, value) ==
    [rw EXCEPT !.header = (key :> value) @@ rw.header]

\* fmt.Fprint(w, msg)
Fprint(rw, msg) ==
    LET rw1 == WriteHeader(rw, 200)
    IN  [rw1 EXCEPT !.body = rw1.body \o msg]

\* WriteError(w, status, msg): the generic plain-text error writer
WriteError(rw, status, msg) ==
    LET rw1 == WriteHeader(rw, status)
        rw2 == HeaderSet(rw1, "Content-Type", "text/plain; charset=utf-8")
        rw3 == Fprint(rw2, msg)
    IN  [rw3 EXCEPT !.writes = Append(rw3.writes,
            [via |-> "WriteError", codec |-> Nil, status |-> status,
             err |-> msg, reply |-> <<>>])]

\* an error after the CodecRequest exists written by the generic WriteError
CodecWriteErrorPlain(rw, codec, status, err) == WriteError(rw, status, err)

\* codecReq.WriteError(w, status, err), of the CodecRequest made by codec
CodecWriteError(rw, codec, status, err) ==
    [rw EXCEPT !.writes = Append(rw.writes,
        [via |-> "codecReq.WriteError", codec |-> codec, status |-> status,
         err |-> err, reply |-> <<>>])]

\* codecReq.WriteResponse(w, reply), of the CodecRequest made by codec
CodecWriteResponse(rw, codec, reply) ==
    [rw EXCEPT !.writes = Append(rw.writes,
        [via |-> "codecReq.WriteResponse", codec |-> codec, status |-> 0,
         err |-> NoError, reply |-> reply])]

-----------------------------------------------------------------------------
(* ServeHTTP: the decisions *)

\* IsPost with GET let through as well
IsPostOrGet(verb) == verb \in {"POST", "GET"}

\* r.Method != "POST" fails
IsPost(verb) == verb = "POST"

\* the Content-Type header up to the first ";"
StripParams(contentType) ==
    LET idx == Index(contentType)
    IN  IF idx # 0 - 1 THEN Prefix(contentType, idx) ELSE contentType

\* SelectCodec defaulting to some codec for an empty content type however
\* many codecs are registered
SelectCodecAnyDefault(cs, contentType) ==
    IF contentType = <<>> /\ DOMAIN cs # {}
    THEN cs[CHOOSE k \in DOMAIN cs : TRUE]
    ELSE MapGet(cs, ToLower(contentType))

\* SelectCodec looking the content type up without lower-casing it
SelectCodecCaseSensitive(cs, contentType) ==
    IF contentType = <<>> /\ Cardinality(DOMAIN cs) = 1
    THEN cs[CHOOSE k \in DOMAIN cs : TRUE]
    ELSE MapGet(cs, contentType)

\* SelectCodec falling back to some registered codec when the lookup fails
SelectCodecFallback(cs, contentType) ==
    IF DOMAIN cs # {} /\ (contentType = <<>> \/ ToLower(contentType) \notin DOMAIN cs)
    THEN cs[CHOOSE k \in DOMAIN cs : TRUE]
    ELSE MapGet(cs, ToLower(contentType))

\* the codec chosen for the stripped content type; nil when there is none
SelectCodec(cs, contentType) ==
    IF contentType = <<>> /\ Cardinality(DOMAIN cs) = 1
    THEN cs[CHOOSE k \in DOMAIN cs : TRUE]
    ELSE MapGet(cs, ToLower(contentType))

\* PathLookup taking the first path segment instead of the last
PathLookupFirstSegment(svc, path) == Get(svc, IF Len(path) = 0 THEN "" ELSE path[1])

\* pathMethod and the result of looking it up
PathLookup(svc, path) == Get(svc, LastPart(path))

\* the method the request is dispatched to: the name codecReq.Method()
\* returned, looked up in the registry
DispatchLookup(svc, methodName) == Get(svc, methodName)

\* Encode writing the reply whatever the method returned
EncodeAlwaysResponse(rw, codec, reply, errResult) == CodecWriteResponse(rw, codec, reply)

\* the response for the result of the call
Encode(rw, codec, reply, errResult) ==
    IF errResult = NoError
    THEN CodecWriteResponse(rw, codec, reply)
    ELSE CodecWriteError(rw, codec, 400, errResult)

-----------------------------------------------------------------------------
(* ServeHTTP: the locals and the steps *)

NoLocals ==
    [contentType |-> <<>>, codec |-> Nil, pathMethod |-> "", methodName |-> "",
     methodSpec |-> NoSpec, args |-> <<>>, reply |-> <<>>, errResult |-> NoError]

ErrEnvelope == <<"codec: malformed request">>
ErrMethod == <<"codec: no method in request">>
ErrRead == <<"codec: cannot decode params">>

Terminal == {"ResponseWritten", "ErrorWritten"}

\* The host HTTP runtime hands request q to ServeHTTP on handler i.
Accept(i, q) ==
    /\ server = "ok"
    /\ pc[i] = "idle"
    /\ serving' = TRUE
    /\ pc' = [pc EXCEPT ![i] = "Received"]
    /\ r' = [r EXCEPT ![i] = q]
    /\ loc' = [loc EXCEPT ![i] = NoLocals]
    /\ calls' = [calls EXCEPT ![i] = <<>>]
    /\ w' = [w EXCEPT ![i] = NewWriter]
    /\ UNCHANGED <<server, service, codecs>>

\* CheckMethod without the return after WriteError
CheckMethodNoReturn(i) ==
    /\ pc[i] = "Received"
    /\ IF IsPost(r[i].verb)
       THEN UNCHANGED w
       ELSE w' = [w EXCEPT ![i] = WriteError(w[i], 405,
                     <<"rpc: POST method required, received ", r[i].verb>>)]
    /\ pc' = [pc EXCEPT ![i] = "MethodChecked"]
    /\ UNCHANGED <<server, service, codecs, serving, r, loc, calls>>

\* if r.Method != "POST" { WriteError(w, 405, ...); return }
CheckMethod(i) ==
    /\ pc[i] = "Received"
    /\ IF IsPost(r[i].verb)
       THEN /\ pc' = [pc EXCEPT ![i] = "MethodChecked"]
            /\ UNCHANGED w
       ELSE /\ w' = [w EXCEPT ![i] = WriteError(w[i], 405,
                        <<"rpc: POST method required, received ", r[i].verb>>)]
            /\ pc' = [pc EXCEPT ![i] = "ErrorWritten"]
    /\ UNCHANGED <<server, service, codecs, serving, r, loc, calls>>

\* SelectCodecStep storing the codec it chose as the server's default for an
\* empty content type
SelectCodecStepCaching(i) ==
    /\ pc[i] = "MethodChecked"
    /\ LET contentType == StripParams(r[i].contentType)
           codec == MapGet(codecs, ToLower(contentType))
       IN  /\ loc' = [loc EXCEPT ![i].contentType = contentType, ![i].codec = codec]
           /\ IF codec = Nil
              THEN /\ w' = [w EXCEPT ![i] = WriteError(w[i], 415,
                               <<"rpc: unrecognized Content-Type: ">> \o contentType)]
                   /\ pc' = [pc EXCEPT ![i] = "ErrorWritten"]
                   /\ UNCHANGED codecs
              ELSE /\ pc' = [pc EXCEPT ![i] = "CodecSelected"]
                   /\ codecs' = (<<>> :> codec) @@ codecs
                   /\ UNCHANGED w
    /\ UNCHANGED <<server, service, serving, r, calls>>

\* contentType := ...; the codec for it, or WriteError(w, 415, ...); return
SelectCodecStep(i) ==
    /\ pc[i] = "MethodChecked"
    /\ LET contentType == StripParams(r[i].contentType)
           codec == SelectCodec(codecs, contentType)
       IN  /\ loc' = [loc EXCEPT ![i].contentType = contentType, ![i].codec = codec]
           /\ IF codec = Nil
              THEN /\ w' = [w EXCEPT ![i] = WriteError(w[i], 415,
                               <<"rpc: unrecognized Content-Type: ">> \o contentType)]
                   /\ pc' = [pc EXCEPT ![i] = "ErrorWritten"]
              ELSE /\ pc' = [pc EXCEPT ![i] = "CodecSelected"]
                   /\ UNCHANGED w
    /\ UNCHANGED <<server, service, codecs, serving, r, calls>>

\* pathMethod := LastPart(r.URL.Path); s.service.Get(pathMethod), or
\* WriteError(w, 404, errGet.Error()); return
ResolvePath(i) ==
    /\ pc[i] = "CodecSelected"
    /\ LET pathMethod == LastPart(r[i].path)
           found == PathLookup(service, r[i].path)
       IN  /\ loc' = [loc EXCEPT ![i].pathMethod = pathMethod]
           /\ calls' = [calls EXCEPT ![i] = Append(@, <<"service.Get", pathMethod>>)]
           /\ IF found.err # NoError
              THEN /\ w' = [w EXCEPT ![i] = WriteError(w[i], 404, found.err)]
                   /\ pc' = [pc EXCEPT ![i] = "ErrorWritten"]
              ELSE /\ pc' = [pc EXCEPT ![i] = "PathResolved"]
                   /\ UNCHANGED w
    /\ UNCHANGED <<server, service, codecs, serving, r>>

\* NewRequest going on whatever codecReq.Error() reports
NewRequestIgnoringError(i) ==
    /\ pc[i] = "PathResolved"
    /\ calls' = [calls EXCEPT ![i] =
                    @ \o << <<"codec.NewRequest", loc[i].codec>>, <<"codecReq.Error", "">> >>]
    /\ pc' = [pc EXCEPT ![i] = "RequestCreated"]
    /\ UNCHANGED <<server, service, codecs, serving, r, loc, w>>

\* codecReq := codec.NewRequest(r); codecReq.Error() != nil -> 400
NewRequest(i) ==
    /\ pc[i] = "PathResolved"
    /\ calls' = [calls EXCEPT ![i] =
                    @ \o << <<"codec.NewRequest", loc[i].codec>>, <<"codecReq.Error", "">> >>]
    /\ IF r[i].body.envErr
       THEN /\ w' = [w EXCEPT ![i] = CodecWriteError(w[i], loc[i].codec, 400, ErrEnvelope)]
            /\ pc' = [pc EXCEPT ![i] = "ErrorWritten"]
       ELSE /\ pc' = [pc EXCEPT ![i] = "RequestCreated"]
            /\ UNCHANGED w
    /\ UNCHANGED <<server, service, codecs, serving, r, loc>>

\* methodName, errMethod := codecReq.Method(); methodSpec, errGet :=
\* s.service.Get(methodName); either error -> 400
GetMethod(i) ==
    /\ pc[i] = "RequestCreated"
    /\ IF r[i].body.methodErr
       THEN /\ calls' = [calls EXCEPT ![i] = Append(@, <<"codecReq.Method", "">>)]
            /\ w' = [w EXCEPT ![i] = CodecWriteError(w[i], loc[i].codec, 400, ErrMethod)]
            /\ pc' = [pc EXCEPT ![i] = "ErrorWritten"]
            /\ UNCHANGED loc
       ELSE LET methodName == r[i].body.method
                found == DispatchLookup(service, methodName)
            IN  /\ calls' = [calls EXCEPT ![i] =
                                @ \o << <<"codecReq.Method", "">>, <<"service.Get", methodName>> >>]
                /\ IF found.err # NoError
                   THEN /\ w' = [w EXCEPT ![i] =
                                    CodecWriteError(w[i], loc[i].codec, 400, found.err)]
                        /\ pc' = [pc EXCEPT ![i] = "ErrorWritten"]
                        /\ loc' = [loc EXCEPT ![i].methodName = methodName]
                   ELSE /\ loc' = [loc EXCEPT ![i].methodName = methodName,
                                              ![i].methodSpec = found.spec]
                        /\ pc' = [pc EXCEPT ![i] = "MethodResolved"]
                        /\ UNCHANGED w
    /\ UNCHANGED <<server, service, codecs, serving, r>>

\* ReadRequest without the return after the error is written
ReadRequestNoReturn(i) ==
    /\ pc[i] = "MethodResolved"
    /\ calls' = [calls EXCEPT ![i] = Append(@, <<"codecReq.ReadRequest", "">>)]
    /\ IF r[i].body.readErr
       THEN /\ loc' = [loc EXCEPT ![i].args = Zero(loc[i].methodSpec.argsType)]
            /\ w' = [w EXCEPT ![i] = CodecWriteError(w[i], loc[i].codec, 400, ErrRead)]
       ELSE /\ loc' = [loc EXCEPT ![i].args = r[i].body.params]
            /\ UNCHANGED w
    /\ pc' = [pc EXCEPT ![i] = "RequestDecoded"]
    /\ UNCHANGED <<server, service, codecs, serving, r>>

\* args := reflect.New(methodSpec.argsType); codecReq.ReadRequest(args), or 400
ReadRequest(i) ==
    /\ pc[i] = "MethodResolved"
    /\ calls' = [calls EXCEPT ![i] = Append(@, <<"codecReq.ReadRequest", "">>)]
    /\ IF r[i].body.readErr
       THEN /\ loc' = [loc EXCEPT ![i].args = Zero(loc[i].methodSpec.argsType)]
            /\ w' = [w EXCEPT ![i] = CodecWriteError(w[i], loc[i].codec, 400, ErrRead)]
            /\ pc' = [pc EXCEPT ![i] = "ErrorWritten"]
       ELSE /\ loc' = [loc EXCEPT ![i].args = r[i].body.params]
            /\ pc' = [pc EXCEPT ![i] = "RequestDecoded"]
            /\ UNCHANGED w
    /\ UNCHANGED <<server, service, codecs, serving, r>>

\* Invoke calling the method on args kept in one place for all handlers
InvokeSharedArgs(i) ==
    /\ pc[i] = "RequestDecoded"
    /\ \E j \in Slots :
          /\ loc[j].args # <<>>
          /\ LET reply == Zero(loc[i].methodSpec.replyType)
                 res == Call(loc[i].methodSpec, loc[j].args, reply)
             IN  loc' = [loc EXCEPT ![i].reply = res.reply, ![i].errResult = res.err]
    /\ calls' = [calls EXCEPT ![i] = Append(@, <<"Func.Call", loc[i].methodSpec.name>>)]
    /\ pc' = [pc EXCEPT ![i] = "Invoked"]
    /\ UNCHANGED <<server, service, codecs, serving, r, w>>

\* reply := reflect.New(methodSpec.replyType); methodSpec.method.Func.Call(...)
Invoke(i) ==
    /\ pc[i] = "RequestDecoded"
    /\ LET reply == Zero(loc[i].methodSpec.replyType)
           res == Call(loc[i].methodSpec, loc[i].args, reply)
       IN  loc' = [loc EXCEPT ![i].reply = res.reply, ![i].errResult = res.err]
    /\ calls' = [calls EXCEPT ![i] = Append(@, <<"Func.Call", loc[i].methodSpec.name>>)]
    /\ pc' = [pc EXCEPT ![i] = "Invoked"]
    /\ UNCHANGED <<server, service, codecs, serving, r, w>>

\* WriteResult returning without a write when the method returned an error
WriteResultDropsError(i) ==
    /\ pc[i] = "Invoked"
    /\ IF loc[i].errResult = NoError
       THEN /\ w' = [w EXCEPT ![i] = CodecWriteResponse(w[i], loc[i].codec, loc[i].reply)]
            /\ pc' = [pc EXCEPT ![i] = "ResponseWritten"]
            /\ UNCHANGED <<r, loc, calls>>
       ELSE /\ pc' = [pc EXCEPT ![i] = "idle"]
            /\ r' = [r EXCEPT ![i] = NoRequest]
            /\ loc' = [loc EXCEPT ![i] = NoLocals]
            /\ calls' = [calls EXCEPT ![i] = <<>>]
            /\ UNCHANGED w
    /\ UNCHANGED <<server, service, codecs, serving>>

\* codecReq.WriteResponse(w, reply) or codecReq.WriteError(w, 400, errResult)
WriteResult(i) ==
    /\ pc[i] = "Invoked"
    /\ w' = [w EXCEPT ![i] = Encode(w[i], loc[i].codec, loc[i].reply, loc[i].errResult)]
    /\ pc' = [pc EXCEPT ![i] =
                 IF loc[i].errResult = NoError THEN "ResponseWritten" ELSE "ErrorWritten"]
    /\ UNCHANGED <<server, service, codecs, serving, r, loc, calls>>

\* ServeHTTP returns; the handler is free for the next request.
Return(i) ==
    /\ pc[i] \in Terminal
    /\ pc' = [pc EXCEPT ![i] = "idle"]
    /\ r' = [r EXCEPT ![i] = NoRequest]
    /\ loc' = [loc EXCEPT ![i] = NoLocals]
    /\ calls' = [calls EXCEPT ![i] = <<>>]
    /\ w' = [w EXCEPT ![i] = NewWriter]
    /\ UNCHANGED <<server, service, codecs, serving>>

\* anotherServer.RegisterCodec(codec, contentType), before router.Run()
RegisterCodec(codec, contentType) ==
    /\ server = "ok"
    /\ ~serving
    /\ \/ CodecKey(contentType) \in DOMAIN codecs
       \/ Cardinality(DOMAIN codecs) < MaxCodecs
    /\ codecs' = (CodecKey(contentType) :> codec) @@ codecs
    /\ UNCHANGED <<server, service, serving, pc, r, loc, calls, w>>

-----------------------------------------------------------------------------
(* The program: NewServer, RegisterCodec calls, then requests one at a time *)

Init ==
    /\ \E receiver \in Receivers :
          LET res == NewServer(receiver)
          IN  /\ server = res.server
              /\ service = res.service
              /\ codecs = res.codecs
    /\ serving = FALSE
    /\ pc = [i \in Slots |-> "idle"]
    /\ r = [i \in Slots |-> NoRequest]
    /\ loc = [i \in Slots |-> NoLocals]
    /\ calls = [i \in Slots |-> <<>>]
    /\ w = [i \in Slots |-> NewWriter]

Step(i) ==
    \/ CheckMethod(i)
    \/ SelectCodecStep(i)
    \/ ResolvePath(i)
    \/ NewRequest(i)
    \/ GetMethod(i)
    \/ ReadRequest(i)
    \/ Invoke(i)
    \/ WriteResult(i)
    \/ Return(i)

Register ==
    /\ ~serving
    /\ \E codec \in Codecs, contentType \in RegTypes : RegisterCodec(codec, contentType)

AcceptOne ==
    /\ pc["h1"] = "idle"
    /\ \E q \in Requests : Accept("h1", q)

Next ==
    \/ Register
    \/ AcceptOne
    \/ Step("h1")

Spec == Init /\ [][Next]_vars

-----------------------------------------------------------------------------
(* The program with two handlers running ServeHTTP concurrently *)

\* The requests of the two-handler program.
ConcRequests ==
    { q \in Requests :
        /\ q.contentType \in { <<>>, <<"application/json">> }
        /\ q.path \in { <<"jsonrpc", "v2", "Multiply">>, <<"jsonrpc", "v2", "multiply">> }
        /\ ~q.body.methodErr /\ ~q.body.readErr
        /\ q.body.envErr \/ <<q.body.method, q.body.params>> \in
              { <<"Multiply", <<6, 7>> >>, <<"Divide", <<7, 2>> >>, <<"Divide", <<1, 0>> >> } }

AcceptConc(i) ==
    /\ pc[i] = "idle"
    /\ \E q \in ConcRequests : Accept(i, q)

NextConc ==
    \/ Register
    \/ \E i \in Slots : AcceptConc(i) \/ Step(i)

SpecConc == Init /\ [][NextConc]_vars

-----------------------------------------------------------------------------
(* The programs with the handlers scheduled fairly: a handler that can take
   its next step of ServeHTTP takes it, every call on the codec, the
   CodecRequest and the method having returned *)

\* The requests of the fair program: one for each way ServeHTTP can end.
LiveRequests ==
    { q \in Requests :
        /\ q.contentType = <<"application/json">>
        /\ q.body.params \in { <<0, 0>>, <<1, 0>> }
        /\ \/ q.verb = "POST" /\ q.path = <<"jsonrpc", "v2", "Multiply">>
           \/ q.verb = "POST" /\ q.path = <<"jsonrpc", "v2", "multiply">> /\ q.body.envErr
           \/ q.verb = "GET" /\ q.path = <<"jsonrpc", "v2", "Multiply">> /\ q.body.envErr }

AcceptLive(i) ==
    /\ pc[i] = "idle"
    /\ \E q \in LiveRequests : Accept(i, q)

NextLive ==
    \/ Register
    \/ \E i \in Slots : AcceptLive(i) \/ Step(i)

SpecLive == Init /\ [][NextLive]_vars /\ \A i \in Slots : WF_vars(Step(i))

-----------------------------------------------------------------------------
(* Properties *)

\* the registered method names
MethodNames == {m.name : m \in service.methods}

\* handler i has made call op
Called(i, op) == \E k \in 1..Len(calls[i]) : calls[i][k][1] = op

\* the one write of handler i is this plain-text error
PlainError(i, status, msg) ==
    /\ pc[i] = "ErrorWritten"
    /\ w[i].writes = << [via |-> "WriteError", codec |-> Nil, status |-> status,
                         err |-> msg, reply |-> <<>>] >>
    /\ w[i].status = status
    /\ w[i].body = msg

\* handler i is past the POST check / past codec selection / past the path lookup
PastMethodCheck(i) == pc[i] \notin {"idle", "Received"}
PastSelection(i) == pc[i] \notin {"idle", "Received", "MethodChecked"} /\ r[i].verb = "POST"
PastPathLookup(i) == PastSelection(i) /\ loc[i].codec # Nil /\ pc[i] # "CodecSelected"

\* C1: a request whose verb is not POST ends with the plain-text error 405
\* naming the verb, whatever its header, path and body and whatever codecs
\* are registered; no codec is selected and no collaborator (registry, codec,
\* method) is called.
C1_NonPostGets405 ==
    \A i \in Slots :
        (PastMethodCheck(i) /\ r[i].verb # "POST") =>
            /\ PlainError(i, 405, <<"rpc: POST method required, received ", r[i].verb>>)
            /\ loc[i].codec = Nil
            /\ calls[i] = <<>>

C1_Witness ==
    \E i \in Slots :
        /\ pc[i] = "ErrorWritten"
        /\ r[i].verb = "GET"
        /\ r[i].contentType = <<"application/json">>
        /\ <<"application/json">> \in DOMAIN codecs
        /\ LastPart(r[i].path) = "Multiply"
        /\ w[i].status = 405

\* the codec selection of handler i ended with the plain-text error 415
Got415(i) ==
    PlainError(i, 415, <<"rpc: unrecognized Content-Type: ">> \o StripParams(r[i].contentType))

\* the codec selection of handler i chose codec c
Selected(i, c) ==
    /\ loc[i].codec = c
    /\ c # Nil
    /\ w[i].writes = <<>> \/ Called(i, "service.Get")

\* C2 (as stated): an empty Content-Type selects the sole codec when exactly
\* one is registered and gets 415 when two or more (or none) are registered;
\* a non-empty content type matching no registered codec gets 415.
C2_EmptyTypeWithSeveralCodecsGets415 ==
    \A i \in Slots :
        PastSelection(i) =>
            LET ct == StripParams(r[i].contentType)
                n == Cardinality(DOMAIN codecs)
            IN  /\ (ct = <<>> /\ n = 1) => \E k \in DOMAIN codecs : Selected(i, codecs[k])
                /\ (ct = <<>> /\ n # 1) => Got415(i)
                /\ (ct # <<>> /\ ToLower(ct) \notin DOMAIN codecs) => Got415(i)

\* C2 (amended): with two or more codecs registered an empty Content-Type
\* selects the codec registered under the empty content type when there is
\* one, and gets 415 only when there is none; the other cases are as stated.
C2_EmptyTypeSelection ==
    \A i \in Slots :
        PastSelection(i) =>
            LET ct == StripParams(r[i].contentType)
                n == Cardinality(DOMAIN codecs)
            IN  /\ (ct = <<>> /\ n = 1) => \E k \in DOMAIN codecs : Selected(i, codecs[k])
                /\ (ct = <<>> /\ n > 1 /\ <<>> \in DOMAIN codecs) => Selected(i, codecs[<<>>])
                /\ (ct = <<>> /\ n > 1 /\ <<>> \notin DOMAIN codecs) => Got415(i)
                /\ (ct = <<>> /\ n = 0) => Got415(i)
                /\ (ct # <<>> /\ ToLower(ct) \notin DOMAIN codecs) => Got415(i)

C2_Witness ==
    \E i \in Slots :
        /\ r[i].contentType = <<>>
        /\ Cardinality(DOMAIN codecs) = 2
        /\ <<>> \notin DOMAIN codecs
        /\ Got415(i)

\* the part of a header before its first ";"
NoSemicolon(s) == \A k \in 1..Len(s) : s[k] # ";"
MediaType(h) ==
    CHOOSE p \in {SubSeq(h, 1, n) : n \in 0..Len(h)} :
        NoSemicolon(p) /\ (Len(p) = Len(h) \/ h[Len(p) + 1] = ";")

\* two headers that differ only in the letter case of the media type or in
\* what follows the first ";"
SameMediaType(h1, h2) ==
    /\ Len(MediaType(h1)) = Len(MediaType(h2))
    /\ \A k \in 1..Len(MediaType(h1)) :
          ToLowerToken(MediaType(h1)[k]) = ToLowerToken(MediaType(h2)[k])

\* C3: the codec the handler selected for its header (nil when it answered
\* 415) is the codec selected for every header that differs from it only in
\* the letter case of the media type or in what follows the first ";".
C3_SelectionIgnoresCaseAndParams ==
    \A i \in Slots :
        PastSelection(i) =>
            \A h \in HeaderTypes :
                SameMediaType(r[i].contentType, h) =>
                    /\ SelectCodec(codecs, StripParams(h)) = loc[i].codec
                    /\ (loc[i].codec = Nil) = (pc[i] = "ErrorWritten" /\ w[i].status = 415)

C3_Witness ==
    \E i \in Slots :
        /\ pc[i] = "CodecSelected"
        /\ r[i].contentType = <<"Application/JSON", ";", "Charset=UTF-8">>
        /\ Cardinality(DOMAIN codecs) = 2
        /\ loc[i].codec = codecs[<<"application/json">>]

\* C4: a POST with a selected codec whose final path segment is not a
\* registered method name ends with the plain-text error 404 carrying the
\* lookup error, and the only collaborator call made is that lookup.
C4_UnknownPathGets404 ==
    \A i \in Slots :
        (PastPathLookup(i) /\ r[i].path[Len(r[i].path)] \notin MethodNames) =>
            /\ PlainError(i, 404, Get(service, r[i].path[Len(r[i].path)]).err)
            /\ calls[i] = << <<"service.Get", r[i].path[Len(r[i].path)]>> >>

C4_Witness ==
    \E i \in Slots :
        /\ pc[i] = "ErrorWritten"
        /\ r[i].path = <<"Divide", "jsonrpc">>
        /\ loc[i].codec = "jsonCodec"
        /\ w[i].status = 404
        /\ r[i].body.envErr

\* C5: once the method has been called and the response written, the one
\* write is codecReq.WriteError with 400 and the error the method returned
\* when that error is non-nil, and codecReq.WriteResponse when it is nil.
C5_ErrorOrResponse ==
    \A i \in Slots :
        Called(i, "Func.Call") =>
            /\ pc[i] \in {"Invoked"} \cup Terminal
            /\ pc[i] = "Invoked" => w[i].writes = <<>>
            /\ (pc[i] \in Terminal /\ loc[i].errResult # NoError) =>
                  w[i].writes = << [via |-> "codecReq.WriteError", codec |-> loc[i].codec,
                                    status |-> 400, err |-> loc[i].errResult,
                                    reply |-> <<>>] >>
            /\ (pc[i] \in Terminal /\ loc[i].errResult = NoError) =>
                  /\ Len(w[i].writes) = 1
                  /\ w[i].writes[1].via = "codecReq.WriteResponse"

C5_Witness ==
    \E i \in Slots :
        /\ pc[i] = "ErrorWritten"
        /\ Called(i, "Func.Call")
        /\ loc[i].errResult = ErrDivideByZero
        /\ w[i].writes[1].via = "codecReq.WriteError"

\* the name of the method handler i called
CalledMethod(i) == (CHOOSE c \in {calls[i][k] : k \in 1..Len(calls[i])} : c[1] = "Func.Call")[2]

\* x and y are the same Go int: equal modulo 2^IntBits, x in range
SameInt(x, y) == x \in MinInt..MaxInt /\ (x - y) % Pow2(IntBits) = 0

\* C6: the value handed to codecReq.WriteResponse is the reply of the called
\* method for the decoded arguments: A*B for Multiply (6,7 -> 42), Quo and
\* Rem with Quo*B + Rem = A for Divide with B # 0 (7,2 -> 3,1); Divide with
\* B = 0 gives the error "divide by zero", a reply left at its zero value
\* and no WriteResponse.
C6_ReplyIsWhatTheMethodComputed ==
    \A i \in Slots :
        (Called(i, "Func.Call") /\ pc[i] \in Terminal) =>
            LET a == r[i].body.params
                out == w[i].writes[1]
            IN  /\ Len(w[i].writes) = 1
                /\ loc[i].args = a
                /\ CalledMethod(i) = "Multiply" =>
                      /\ out.via = "codecReq.WriteResponse"
                      /\ Len(out.reply) = 1
                      /\ SameInt(out.reply[1], a[1] * a[2])
                      /\ (a = <<6, 7>>) => out.reply = <<42>>
                /\ (CalledMethod(i) = "Divide" /\ a[2] # 0) =>
                      /\ out.via = "codecReq.WriteResponse"
                      /\ Len(out.reply) = 2
                      /\ SameInt(a[1], out.reply[1] * a[2] + out.reply[2])
                      /\ (a = <<7, 2>>) => out.reply = <<3, 1>>
                /\ (CalledMethod(i) = "Divide" /\ a[2] = 0) =>
                      /\ out.via = "codecReq.WriteError"
                      /\ out.err = <<"divide by zero">>
                      /\ out.reply = <<>>
                      /\ loc[i].reply = <<0, 0>>

C6_Witness ==
    \E i \in Slots :
        /\ pc[i] = "ResponseWritten"
        /\ CalledMethod(i) = "Divide"
        /\ r[i].body.params = <<7, 2>>
        /\ w[i].writes[1].reply = <<3, 1>>

\* C7: a handler never makes a second write; it is terminal exactly when it
\* has made its one write; once it has, it makes no further call and no
\* further write; and ServeHTTP returns only with its one write made.
C7_ExactlyOneWrite ==
    [][\A i \in Slots :
          /\ Len(w'[i].writes) <= 1
          /\ (pc'[i] \in Terminal) = (Len(w'[i].writes) = 1)
          /\ Len(w[i].writes) = 1 =>
                \/ pc'[i] = "idle"
                \/ w'[i] = w[i] /\ calls'[i] = calls[i] /\ pc'[i] = pc[i]
          /\ (pc[i] # "idle" /\ pc'[i] = "idle") => Len(w[i].writes) = 1]_vars

C7_Witness ==
    \E i \in Slots :
        /\ pc[i] = "ResponseWritten"
        /\ Len(w[i].writes) = 1
        /\ Len(calls[i]) = 7

\* C8 (as stated): no plain-text WriteError once a codec has been selected.
C8_NoPlainErrorAfterSelection ==
    \A i \in Slots :
        (PastSelection(i) /\ loc[i].codec # Nil) =>
            \A k \in 1..Len(w[i].writes) : w[i].writes[k].via # "WriteError"

\* C8 (amended): every error written once codec.NewRequest has made the
\* CodecRequest goes through the codecReq.WriteError of the selected codec
\* with status 400; before that, the errors (405, 415 and the 404 of the
\* path lookup, which comes after the codec selection) are plain text.
C8_CodecErrorsAfterNewRequest ==
    \A i \in Slots :
        pc[i] = "ErrorWritten" =>
            LET out == w[i].writes[1]
            IN  IF Called(i, "codec.NewRequest")
                THEN /\ out.via = "codecReq.WriteError"
                     /\ out.codec = loc[i].codec
                     /\ out.codec = SelectCodec(codecs, StripParams(r[i].contentType))
                     /\ out.status = 400
                ELSE /\ out.via = "WriteError"
                     /\ out.status \in {405, 415, 404}
                     /\ out.status = 404 => loc[i].codec # Nil

C8_Witness ==
    \E i \in Slots :
        /\ pc[i] = "ErrorWritten"
        /\ Called(i, "codec.NewRequest")
        /\ loc[i].methodName = "Sqrt"
        /\ w[i].writes[1].via = "codecReq.WriteError"

\* C9 (as stated): the method that is called is the one registered under the
\* final segment of the request's URL path.
C9_CalledMethodIsPathSegment ==
    \A i \in Slots :
        Called(i, "Func.Call") => CalledMethod(i) = r[i].path[Len(r[i].path)]

\* C10: a step of ServeHTTP leaves the codec map and the registry as they
\* were, and two requests that are identical have, once both are answered,
\* identical responses, each computed in its own handler from the decoded
\* args and a reply that started at its zero value.
C10_ServeLeavesServerUnchanged ==
    [][/\ (\E i \in Slots : pc'[i] # pc[i]) =>
            (codecs' = codecs /\ service' = service /\ server' = server)
       /\ \A i, j \in Slots :
            (pc'[i] \in Terminal /\ pc'[j] \in Terminal /\ r'[i] = r'[j]) =>
                (w'[i] = w'[j] /\ pc'[i] = pc'[j] /\ loc'[i] = loc'[j])]_vars

C10_Witness ==
    /\ pc["h1"] = "ResponseWritten"
    /\ pc["h2"] = "ResponseWritten"
    /\ r["h1"] = r["h2"]
    /\ r["h1"].contentType = <<>>
    /\ w["h1"].writes[1].reply = <<42>>
    /\ w["h2"].writes[1].reply = <<42>>

\* the ResponseWriter after ServeHTTP has handled request q with no other
\* request in flight
Alone(q) ==
    IF q.verb # "POST"
    THEN WriteError(NewWriter, 405, <<"rpc: POST method required, received ", q.verb>>)
    ELSE
    LET ct == StripParams(q.contentType)
        codec == SelectCodec(codecs, ct)
        byPath == Get(service, LastPart(q.path))
        byName == Get(service, q.body.method)
    IN  IF codec = Nil
        THEN WriteError(NewWriter, 415, <<"rpc: unrecognized Content-Type: ">> \o ct)
        ELSE IF byPath.err # NoError
        THEN WriteError(NewWriter, 404, byPath.err)
        ELSE IF q.body.envErr
        THEN CodecWriteError(NewWriter, codec, 400, ErrEnvelope)
        ELSE IF q.body.methodErr
        THEN CodecWriteError(NewWriter, codec, 400, ErrMethod)
        ELSE IF byName.err # NoError
        THEN CodecWriteError(NewWriter, codec, 400, byName.err)
        ELSE IF q.body.readErr
        THEN CodecWriteError(NewWriter, codec, 400, ErrRead)
        ELSE LET res == Call(byName.spec, q.body.params, Zero(byName.spec.replyType))
             IN  IF res.err = NoError
                 THEN CodecWriteResponse(NewWriter, codec, res.reply)
                 ELSE CodecWriteError(NewWriter, codec, 400, res.err)

\* C11: with two handlers interleaved in every order, the response of each
\* answered request is the response that request gets when it is handled
\* with no other request in flight, whatever the other handler is doing and
\* whatever error the other request ran into; a handler that has not yet
\* written has written nothing.
C11_RequestsAreIsolated ==
    \A i \in Slots :
        /\ pc[i] \in Terminal => w[i] = Alone(r[i])
        /\ (pc[i] \notin Terminal /\ pc[i] # "idle") => w[i] = NewWriter
        /\ pc[i] \in {"RequestDecoded", "Invoked"} \cup Terminal =>
              (loc[i].args # <<>> => loc[i].args = r[i].body.params)

C11_Witness ==
    /\ pc["h1"] = "ResponseWritten"
    /\ w["h1"].writes[1].reply = <<42>>
    /\ pc["h2"] = "Invoked"
    /\ loc["h2"].errResult = ErrDivideByZero
    /\ r["h1"].path = <<"jsonrpc", "v2", "Multiply">>
    /\ r["h2"].contentType = <<>>

\* C12: NewServer returns either an error and no Server, or a Server with an
\* empty codec map and a registry of at least one method; when it returned
\* no Server nothing is ever registered or handled, and a request is only
\* ever handled by a Server whose registry has a method.
C12_ConstructionIsAtomic ==
    /\ server \in {"ok", "nil"}
    /\ codecs = EmptyMap
    /\ (server = "ok") = (service.methods # {})
    /\ [](server = "nil" =>
            /\ service = NoService
            /\ codecs = EmptyMap
            /\ ~serving
            /\ \A i \in Slots : pc[i] = "idle")
    /\ []((\E i \in Slots : pc[i] # "idle") =>
            (server = "ok" /\ service.methods # {}))

C12_Witness ==
    /\ server = "nil"
    /\ service = NoService
    /\ service.methods = {}

\* two strings equal up to letter case
EqualFold(a, b) ==
    /\ Len(a) = Len(b)
    /\ \A k \in 1..Len(a) : ToLowerToken(a[k]) = ToLowerToken(b[k])

\* C13: a RegisterCodec(c, t) step leaves exactly one entry whose key equals
\* t up to letter case, holding c (so a later registration under the same
\* type in another case replaces the earlier one), leaves every other entry
\* as it was, and from then on c is the codec selected for every header
\* whose media type equals t up to letter case.
C13_LastRegistrationWins ==
    [][\A c \in Codecs, t \in RegTypes :
          RegisterCodec(c, t) =>
              /\ Cardinality({k \in DOMAIN codecs' : EqualFold(k, t)}) = 1
              /\ \A k \in DOMAIN codecs' : EqualFold(k, t) => codecs'[k] = c
              /\ \A k \in DOMAIN codecs :
                    ~EqualFold(k, t) => (k \in DOMAIN codecs' /\ codecs'[k] = codecs[k])
              /\ \A k \in DOMAIN codecs' : k \in DOMAIN codecs \/ EqualFold(k, t)
              /\ \A h \in HeaderTypes :
                    EqualFold(MediaType(h), t) => SelectCodec(codecs', StripParams(h)) = c]_vars

C13_Witness ==
    /\ DOMAIN codecs = { <<"application/json">> }
    /\ codecs[<<"application/json">>] = "xmlCodec"
    /\ pc["h1"] = "CodecSelected"
    /\ r["h1"].contentType = <<"Application/JSON">>
    /\ loc["h1"].codec = "xmlCodec"

\* names to look up: registered ones and near misses (other case, a prefix,
\* a qualified name, a wildcard, the empty name)
LookupNames ==
    {"Multiply", "Divide", "multiply", "DIVIDE", "Mult", "Arith.Multiply", "*", "", "Sqrt"}

\* handler i has looked a name up after the path lookup
LookedUpBodyName(i) ==
    \E k \in 2..Len(calls[i]) : calls[i][k][1] = "service.Get"

\* C14: HasMethod(name) is true exactly for the names a MethodSpec is
\* registered under, character for character; ServeHTTP goes on past its
\* path lookup exactly when HasMethod is true of the final path segment, and
\* past its lookup of the name in the body exactly when HasMethod is true of
\* that name.
C14_ExactNameLookup ==
    /\ \A name \in LookupNames :
          HasMethod(name) = (name \in {m.name : m \in service.methods})
    /\ server = "ok" =>
          /\ HasMethod("Multiply") /\ HasMethod("Divide")
          /\ \A name \in LookupNames \ {"Multiply", "Divide"} : ~HasMethod(name)
    /\ \A i \in Slots :
          /\ Called(i, "service.Get") =>
                (HasMethod(r[i].path[Len(r[i].path)]) =
                    ~(pc[i] = "ErrorWritten" /\ w[i].status = 404))
          /\ LookedUpBodyName(i) =>
                (HasMethod(r[i].body.method) =
                    (pc[i] \in {"MethodResolved", "RequestDecoded", "Invoked", "ResponseWritten"}
                     \/ Called(i, "codecReq.ReadRequest")))

C14_Witness ==
    \E i \in Slots :
        /\ pc[i] = "ErrorWritten"
        /\ r[i].path = <<"jsonrpc", "v2", "multiply">>
        /\ w[i].status = 404
        /\ HasMethod("Multiply")
        /\ ~HasMethod("multiply")

\* the positions of ServeHTTP in their order; PathResolved and
\* RequestCreated are the positions between the path lookup, the creation of
\* the CodecRequest and the lookup of the name it reports
Rank(p) ==
    CASE p = "idle" -> 0
      [] p = "Received" -> 1
      [] p = "MethodChecked" -> 2
      [] p = "CodecSelected" -> 3
      [] p = "PathResolved" -> 4
      [] p = "RequestCreated" -> 5
      [] p = "MethodResolved" -> 6
      [] p = "RequestDecoded" -> 7
      [] p = "Invoked" -> 8
      [] OTHER -> 9

\* the calls of a handler that has called the method, up to the n-th
CallsUpTo(i, n) ==
    SubSeq(<< <<"service.Get", r[i].path[Len(r[i].path)]>>,
              <<"codec.NewRequest", loc[i].codec>>,
              <<"codecReq.Error", "">>,
              <<"codecReq.Method", "">>,
              <<"service.Get", r[i].body.method>>,
              <<"codecReq.ReadRequest", "">>,
              <<"Func.Call", r[i].body.method>> >>, 1, n)

\* C15: a handler only moves to the next position or to ErrorWritten, and
\* reaches ResponseWritten only from Invoked; the method is called at most
\* once, after the POST check passed, a codec was selected, the path segment
\* and the name from the body were found in the registry and ReadRequest
\* returned no error; ReadRequest is called only after both names were found.
C15_ForwardOnly ==
    [][\A i \in Slots :
          /\ pc'[i] # pc[i] =>
                \/ pc[i] \in Terminal /\ pc'[i] = "idle"
                \/ pc[i] \notin Terminal /\ Rank(pc'[i]) = Rank(pc[i]) + 1
                \/ pc[i] \notin Terminal \cup {"idle"} /\ pc'[i] = "ErrorWritten"
          /\ pc'[i] = "ResponseWritten" => pc[i] \in {"Invoked", "ResponseWritten"}
          /\ Called(i, "Func.Call")' =>
                /\ calls'[i] = CallsUpTo(i, 7)'
                /\ Rank(pc'[i]) >= 8
                /\ r'[i].verb = "POST"
                /\ loc'[i].codec # Nil
                /\ loc'[i].codec = SelectCodec(codecs', StripParams(r'[i].contentType))
                /\ r'[i].path[Len(r'[i].path)] \in MethodNames'
                /\ r'[i].body.method \in MethodNames'
                /\ ~r'[i].body.envErr /\ ~r'[i].body.methodErr /\ ~r'[i].body.readErr
          /\ (Called(i, "codecReq.ReadRequest")' /\ ~Called(i, "Func.Call")') =>
                /\ calls'[i] = CallsUpTo(i, 6)'
                /\ Rank(pc'[i]) \in {7, 9}
                /\ r'[i].body.method \in MethodNames']_vars

C15_Witness ==
    \E i \in Slots :
        /\ pc[i] = "Invoked"
        /\ calls[i] = CallsUpTo(i, 7)
        /\ r[i].body.method = "Divide"
        /\ r[i].path = <<"jsonrpc", "v2", "Multiply">>

\* the one write of handler i is codecReq.WriteError(w, 400, err) of the
\* selected codec, and the method was not called
CodecError400(i, err) ==
    /\ pc[i] = "ErrorWritten"
    /\ w[i].writes = << [via |-> "codecReq.WriteError", codec |-> loc[i].codec,
                         status |-> 400, err |-> err, reply |-> <<>>] >>
    /\ ~Called(i, "Func.Call")

\* C16: once the CodecRequest exists, an envelope error, an error of
\* Method(), a name that is not registered and an error of ReadRequest each
\* end the request with codecReq.WriteError and 400 without calling a
\* method; in the first three cases ReadRequest is not called.
C16_CodecFailuresGet400 ==
    \A i \in Slots :
        LET b == r[i].body
        IN  /\ (Called(i, "codecReq.Error") /\ b.envErr) =>
                  /\ CodecError400(i, <<"codec: malformed request">>)
                  /\ ~Called(i, "codecReq.Method")
                  /\ ~Called(i, "codecReq.ReadRequest")
            /\ (Called(i, "codecReq.Method") /\ b.methodErr) =>
                  /\ CodecError400(i, <<"codec: no method in request">>)
                  /\ ~LookedUpBodyName(i)
                  /\ ~Called(i, "codecReq.ReadRequest")
            /\ (LookedUpBodyName(i) /\ b.method \notin MethodNames) =>
                  /\ CodecError400(i, <<"rpc: can't find method ", b.method>>)
                  /\ ~Called(i, "codecReq.ReadRequest")
            /\ (Called(i, "codecReq.ReadRequest") /\ b.readErr) =>
                  CodecError400(i, <<"codec: cannot decode params">>)

C16_Witness ==
    \E i \in Slots :
        /\ Called(i, "codecReq.ReadRequest")
        /\ r[i].body.readErr
        /\ r[i].body.method = "Divide"
        /\ pc[i] = "ErrorWritten"
        /\ w[i].writes[1].status = 400

\* no codec can be selected for request q
Unselectable(q) ==
    /\ ~(MediaType(q.contentType) = <<>> /\ Cardinality(DOMAIN codecs) = 1)
    /\ \A k \in DOMAIN codecs : k # ToLower(MediaType(q.contentType))

\* the body of request q fails one of the checks made on the CodecRequest
BadBody(q) ==
    \/ q.body.envErr
    \/ q.body.methodErr
    \/ q.body.method \notin MethodNames
    \/ q.body.readErr

\* C17: the status of an answered request is decided by the first check it
\* fails, in the order 405, 415, 404, 400: a non-POST request gets 405
\* whatever its header and path; a POST with no selectable codec gets 415
\* whatever its path; a POST with a selectable codec and an unregistered
\* path segment gets 404 whatever its body; only then does a bad body get 400.
C17_StatusPrecedence ==
    \A i \in Slots :
        pc[i] \in Terminal =>
            LET q == r[i]
                status == w[i].writes[1].status
                pathKnown == q.path[Len(q.path)] \in MethodNames
            IN  /\ q.verb # "POST" => status = 405
                /\ (q.verb = "POST" /\ Unselectable(q)) => status = 415
                /\ (q.verb = "POST" /\ ~Unselectable(q) /\ ~pathKnown) => status = 404
                /\ (q.verb = "POST" /\ ~Unselectable(q) /\ pathKnown /\ BadBody(q)) =>
                      (status = 400 /\ w[i].writes[1].via = "codecReq.WriteError")
                /\ status \in {405, 415, 404} => w[i].writes[1].via = "WriteError"

C17_Witness ==
    \E i \in Slots :
        /\ pc[i] = "ErrorWritten"
        /\ r[i].verb = "POST"
        /\ Unselectable(r[i])
        /\ r[i].path = <<"jsonrpc", "v2", "multiply">>
        /\ r[i].body.envErr
        /\ w[i].writes[1].status = 415

\* C18: every request handed to ServeHTTP is answered: the handler reaches
\* ResponseWritten or ErrorWritten with its one write made, whatever the other
\* handler does.
C18_EveryRequestIsAnswered ==
    \A i \in Slots :
        (pc[i] = "Received") ~> (pc[i] \in Terminal /\ Len(w[i].writes) = 1)

C18_Witness ==
    /\ pc["h1"] = "ErrorWritten"
    /\ Len(w["h1"].writes) = 1
    /\ Called("h1", "codecReq.Method")
    /\ pc["h2"] = "PathResolved"

\* C19 (as stated): a response written by the generic WriteError is sent
\* with the given status, the header Content-Type: text/plain; charset=utf-8
\* among the headers committed with the status, and the message as its body.
C19_PlainErrorCarriesContentType ==
    \A i \in Slots :
        (pc[i] = "ErrorWritten" /\ w[i].writes[1].via = "WriteError") =>
            /\ w[i].wroteHeader
            /\ w[i].status = w[i].writes[1].status
            /\ w[i].body = w[i].writes[1].err
            /\ "Content-Type" \in DOMAIN w[i].sent
            /\ w[i].sent["Content-Type"] = "text/plain; charset=utf-8"

\* C20 (as stated): every key of the codec map is lower-case and has no
\* parameter suffix, and a request that sends the string a codec is
\* registered under selects that codec.
C20_KeysAreStrippedAndSelectable ==
    \A k \in DOMAIN codecs :
        /\ k = ToLower(k)
        /\ NoSemicolon(k)
        /\ SelectCodec(codecs, StripParams(k)) = codecs[k]

====
